---- MODULE Spec2Model ----
(***************************************************************************)
(* AIPortfolioAnalyzer (src/ai_portfolio.py): fetch_live_data_batch and    *)
(* analyze_portfolio, with Python's float arithmetic modelled exactly.     *)
(*                                                                         *)
(* Python floats are IEEE-754 binary64.  A positive float is a record      *)
(* [m, e] standing for m * 2^e, m a natural number of exactly 53 bits;     *)
(* zero is FZero.  m is held as a little-endian sequence of base-2^15      *)
(* digits, because the model checker's integers have 32 bits.  Every       *)
(* operation rounds its exact result to nearest, ties to even, as the      *)
(* hardware does.  The values of this program are non-negative and stay    *)
(* far from overflow and from the subnormal range, so sign, infinities,    *)
(* NaN and subnormals are not modelled.                                    *)
(***************************************************************************)
EXTENDS Integers, Sequences, FiniteSets, TLC

\* ------------------------------------------------------------------- state

VARIABLES
    stocks,     \* self.stocks
    pc,         \* pc[c]: where caller c's call of analyze_portfolio stands
    portfolio,  \* portfolio[c]: the dict caller c passed
    frame,      \* frame[c]: the locals of caller c's call
    result,     \* result[c]: what the call returned
    fetched     \* a caller's own call of fetch_live_data_batch and its outcome

vars == <<stocks, pc, portfolio, frame, result, fetched>>

\* ------------------------------------------------------- binary64 arithmetic

\* the digits of a mantissa, and the bits of a float's mantissa
Base == 32768
LimbBits == 15
Precision == 53

\* 2^n for 0 <= n <= LimbBits
Pow2Table ==
    <<1, 2, 4, 8, 16, 32, 64, 128, 256, 512, 1024, 2048, 4096, 8192, 16384, 32768>>

Pow2(n) ==
    Pow2Table[n + 1]

\* the number of bits of n, 0 <= n < Base
SmallBitLen(n) ==
    IF n < 256
    THEN (IF n < 16
          THEN (IF n < 4 THEN (IF n < 2 THEN n ELSE 2) ELSE (IF n < 8 THEN 3 ELSE 4))
          ELSE (IF n < 64 THEN (IF n < 32 THEN 5 ELSE 6) ELSE (IF n < 128 THEN 7 ELSE 8)))
    ELSE (IF n < 4096
          THEN (IF n < 1024 THEN (IF n < 512 THEN 9 ELSE 10)
                ELSE (IF n < 2048 THEN 11 ELSE 12))
          ELSE (IF n < 16384 THEN (IF n < 8192 THEN 13 ELSE 14) ELSE 15))

Min(a, b) ==
    IF a < b THEN a ELSE b

\* ---------------------------------------------------------------- naturals
\* A natural number: <<d1, ..., dn>> is d1 + d2*Base + ..., dn # 0; zero is <<>>.

RECURSIVE BNorm(_)
BNorm(a) ==
    IF a = <<>> THEN <<>>
    ELSE IF a[Len(a)] = 0 THEN BNorm(SubSeq(a, 1, Len(a) - 1))
    ELSE a

BFromInt(n) ==
    IF n = 0 THEN <<>>
    ELSE IF n < Base THEN <<n>>
    ELSE BNorm(<<n % Base, (n \div Base) % Base, n \div (Base * Base)>>)

RECURSIVE BToInt(_)
BToInt(a) ==
    IF a = <<>> THEN 0 ELSE a[1] + Base * BToInt(Tail(a))

RECURSIVE BAddC(_, _, _)
BAddC(a, b, c) ==
    IF a = <<>> /\ b = <<>> THEN (IF c = 0 THEN <<>> ELSE <<c>>)
    ELSE LET x == IF a = <<>> THEN 0 ELSE a[1]
             y == IF b = <<>> THEN 0 ELSE b[1]
             s == x + y + c
         IN  <<s % Base>> \o BAddC(IF a = <<>> THEN <<>> ELSE Tail(a),
                                   IF b = <<>> THEN <<>> ELSE Tail(b),
                                   s \div Base)

BAdd(a, b) ==
    BAddC(a, b, 0)

RECURSIVE BMulSmallC(_, _, _)
BMulSmallC(a, k, c) ==
    IF a = <<>> THEN (IF c = 0 THEN <<>> ELSE <<c>>)
    ELSE LET p == a[1] * k + c
         IN  <<p % Base>> \o BMulSmallC(Tail(a), k, p \div Base)

\* a * k for 0 <= k < Base
BMulSmall(a, k) ==
    IF k = 0 THEN <<>> ELSE BMulSmallC(a, k, 0)

BShiftLimbs(a, n) ==
    IF a = <<>> THEN <<>> ELSE [i \in 1..n |-> 0] \o a

RECURSIVE BMul(_, _)
BMul(a, b) ==
    IF b = <<>> THEN <<>>
    ELSE BAdd(BMulSmall(a, b[1]), BShiftLimbs(BMul(a, Tail(b)), 1))

\* floor(a / d) and a mod d for 0 < d < Base, from the top digit down
RECURSIVE BDivSmallR(_, _, _)
BDivSmallR(a, d, r) ==
    IF a = <<>> THEN [q |-> <<>>, r |-> r]
    ELSE LET cur == r * Base + a[Len(a)]
             rest == BDivSmallR(SubSeq(a, 1, Len(a) - 1), d, cur % d)
         IN  [q |-> rest.q \o <<cur \div d>>, r |-> rest.r]

BDivSmall(a, d) ==
    LET res == BDivSmallR(a, d, 0)
    IN  [q |-> BNorm(res.q), r |-> res.r]

BBitLen(a) ==
    IF a = <<>> THEN 0
    ELSE (Len(a) - 1) * LimbBits + SmallBitLen(a[Len(a)])

BShl(a, s) ==
    BShiftLimbs(BMulSmall(a, Pow2(s % LimbBits)), s \div LimbBits)

BShr(a, s) ==
    LET drop == s \div LimbBits
    IN  IF drop >= Len(a) THEN <<>>
        ELSE BDivSmall(SubSeq(a, drop + 1, Len(a)), Pow2(s % LimbBits)).q

\* bit i of a (bit 0 is the lowest)
BBit(a, i) ==
    LET k == i \div LimbBits + 1
    IN  IF k > Len(a) THEN 0 ELSE (a[k] \div Pow2(i % LimbBits)) % 2

\* whether a mod 2^n # 0
BLowNonZero(a, n) ==
    LET full == n \div LimbBits
    IN  \/ \E i \in 1..Min(full, Len(a)) : a[i] # 0
        \/ /\ full + 1 <= Len(a)
           /\ a[full + 1] % Pow2(n % LimbBits) # 0

BOdd(a) ==
    a # <<>> /\ a[1] % 2 = 1

RECURSIVE BLess(_, _)
BLess(a, b) ==
    IF Len(a) # Len(b) THEN Len(a) < Len(b)
    ELSE IF a = <<>> THEN FALSE
    ELSE IF a[Len(a)] # b[Len(b)] THEN a[Len(a)] < b[Len(b)]
    ELSE BLess(SubSeq(a, 1, Len(a) - 1), SubSeq(b, 1, Len(b) - 1))

\* floor(a / 2^s) rounded to nearest, ties to even; sticky says that a stands
\* for a value slightly above a (a non-zero remainder was dropped before)
BShrRound(a, s, sticky) ==
    IF s = 0 THEN a
    ELSE LET q == BShr(a, s)
             half == BBit(a, s - 1) = 1
             low == sticky \/ BLowNonZero(a, s - 1)
         IN  IF half /\ (low \/ BOdd(q)) THEN BAdd(q, <<1>>) ELSE q

\* ------------------------------------------------------------------ floats

FZero == [m |-> <<>>, e |-> 0]

\* the float nearest to n * 2^e (+ a little, if sticky)
FRound(n, e, sticky) ==
    LET len == BBitLen(n)
    IN  IF len = 0 THEN FZero
        ELSE IF len <= Precision
        THEN [m |-> BShl(n, Precision - len), e |-> e - (Precision - len)]
        ELSE LET s == len - Precision
                 q == BShrRound(n, s, sticky)
             IN  IF BBitLen(q) > Precision
                 THEN [m |-> BShr(q, 1), e |-> e + s + 1]
                 ELSE [m |-> q, e |-> e + s]

\* num / den for integers 0 <= num < Base^2, 0 < den < Base, correctly rounded:
\* Python's true division of two exactly representable numbers, and the value
\* of a decimal literal such as 1.2 (= 12 / 10)
FDivInt(num, den) ==
    LET res == BDivSmall(BShl(BFromInt(num), 75), den)
    IN  FRound(res.q, 0 - 75, res.r # 0)

\* x * y, correctly rounded
FMulExact(x, y) ==
    IF x = FZero \/ y = FZero THEN FZero
    ELSE FRound(BMul(x.m, y.m), x.e + y.e, FALSE)

FAdd(x, y) ==
    IF x = FZero THEN y
    ELSE IF y = FZero THEN x
    ELSE LET e == Min(x.e, y.e)
         IN  FRound(BAdd(BShl(x.m, x.e - e), BShl(y.m, y.e - e)), e, FALSE)

\* x > y
FGreater(x, y) ==
    IF x = FZero THEN FALSE
    ELSE IF y = FZero THEN TRUE
    ELSE IF x.e # y.e THEN x.e > y.e
    ELSE BLess(y.m, x.m)

\* x * scale rounded to the nearest integer, ties to even, on the exact binary
\* value of x: what round(x, 2) (scale 100) and the format ".1f" (scale 10)
\* compute, both being correctly rounded in CPython.  0 < scale < Base, x.e < 0.
FRoundScaled(x, scale) ==
    IF x = FZero THEN 0
    ELSE BToInt(BShrRound(BMulSmall(x.m, scale), 0 - x.e, FALSE))

\* ----------------------------------------------------------------- catalog

\* self.stocks as __init__ builds it
InitialStocks ==
    [s \in {"AAPL", "GOOGL", "MSFT", "NVDA", "JPM", "BAC", "JNJ", "PFE", "XOM",
            "SPY", "TSLA", "AMZN"} |->
        CASE s = "AAPL" -> [name |-> "Apple Inc.", sector |-> "Technology", beta |-> <<12, 10>>,
                            return |-> <<15, 1>>, risk |-> "Medium", volatility |-> <<25, 100>>]
          [] s = "GOOGL" -> [name |-> "Alphabet Inc.", sector |-> "Technology", beta |-> <<13, 10>>,
                             return |-> <<12, 1>>, risk |-> "Medium", volatility |-> <<28, 100>>]
          [] s = "MSFT" -> [name |-> "Microsoft Corp.", sector |-> "Technology", beta |-> <<11, 10>>,
                            return |-> <<14, 1>>, risk |-> "Medium", volatility |-> <<22, 100>>]
          [] s = "NVDA" -> [name |-> "NVIDIA Corp.", sector |-> "Technology", beta |-> <<18, 10>>,
                            return |-> <<20, 1>>, risk |-> "High", volatility |-> <<45, 100>>]
          [] s = "JPM" -> [name |-> "JPMorgan Chase", sector |-> "Financial", beta |-> <<10, 10>>,
                           return |-> <<12, 1>>, risk |-> "Low", volatility |-> <<20, 100>>]
          [] s = "BAC" -> [name |-> "Bank of America", sector |-> "Financial", beta |-> <<12, 10>>,
                           return |-> <<10, 1>>, risk |-> "Medium", volatility |-> <<25, 100>>]
          [] s = "JNJ" -> [name |-> "Johnson & Johnson", sector |-> "Healthcare", beta |-> <<7, 10>>,
                           return |-> <<8, 1>>, risk |-> "Low", volatility |-> <<15, 100>>]
          [] s = "PFE" -> [name |-> "Pfizer", sector |-> "Healthcare", beta |-> <<8, 10>>,
                           return |-> <<6, 1>>, risk |-> "Low", volatility |-> <<18, 100>>]
          [] s = "XOM" -> [name |-> "ExxonMobil", sector |-> "Energy", beta |-> <<11, 10>>,
                           return |-> <<8, 1>>, risk |-> "Medium", volatility |-> <<30, 100>>]
          [] s = "SPY" -> [name |-> "S&P 500 ETF", sector |-> "Index", beta |-> <<10, 10>>,
                           return |-> <<10, 1>>, risk |-> "Low", volatility |-> <<15, 100>>]
          [] s = "TSLA" -> [name |-> "Tesla Inc.", sector |-> "Automotive", beta |-> <<20, 10>>,
                            return |-> <<25, 1>>, risk |-> "High", volatility |-> <<55, 100>>]
          [] OTHER -> [name |-> "Amazon.com", sector |-> "Consumer", beta |-> <<13, 10>>,
                       return |-> <<16, 1>>, risk |-> "Medium", volatility |-> <<30, 100>>]]

\* ------------------------------------------------------------------ inputs

\* the callers of the one analyzer object
Callers == {"c1", "c2"}

\* the tickers of the callers' weight maps, in the order a map lists them;
\* ZZZZ is not in the catalog
TickerOrder == <<"GOOGL", "NVDA", "PFE", "ZZZZ">>

\* weights are whole numbers up to MaxWeight (ConcMaxWeight when two callers run)
MaxWeight == 3
ConcMaxWeight == 2

Range(seq) ==
    {seq[i] : i \in 1..Len(seq)}

Reverse(seq) ==
    [i \in 1..Len(seq) |-> seq[Len(seq) + 1 - i]]

\* the key lists: the tickers of a subset, in TickerOrder
KeyLists ==
    {LET Chosen(t) == t \in S IN SelectSeq(TickerOrder, Chosen) :
        S \in SUBSET Range(TickerOrder)}

\* the weight maps with the keys `keys` (a dict keeps its insertion order) and
\* weights in W
MapsOver(keys, W) ==
    {[i \in 1..Len(keys) |-> [symbol |-> keys[i], weight |-> ws[i]]] :
        ws \in [1..Len(keys) -> W]}

Portfolios ==
    UNION {MapsOver(keys, 0..MaxWeight) : keys \in KeyLists}

\* with two callers: no holding, the catalog's tickers, or one of them and ZZZZ
ConcKeyLists ==
    {keys \in KeyLists :
        \/ Range(keys) \in {{}, Range(TickerOrder) \cap DOMAIN InitialStocks}
        \/ Len(keys) = 2 /\ keys[1] \in DOMAIN InitialStocks /\ keys[2] \notin DOMAIN InitialStocks}

ConcPortfolios ==
    UNION {MapsOver(keys, 1..ConcMaxWeight) : keys \in ConcKeyLists}

\* what yf.download does for a request: it raises, or it returns per ticker a
\* frame with rows, an empty frame, or something whose processing raises
HistKinds == {"rows", "empty", "bad"}

Responses(symbols) ==
    {[download |-> "raise", hist |-> [s \in Range(symbols) |-> "bad"]]} \cup
    {[download |-> "ok", hist |-> h] : h \in [Range(symbols) -> HistKinds]}

\* the provider's answers during an analysis: an outage, rows for all, or
\* no rows for the first ticker
AnalysisResponses(symbols) ==
    {r \in Responses(symbols) :
        \/ r.download = "raise"
        \/ /\ r.download = "ok"
           /\ \A i \in 2..Len(symbols) : r.hist[symbols[i]] = "rows"
           /\ symbols # <<>> => r.hist[symbols[1]] # "bad"}

\* ------------------------------------------------------ tabulated arithmetic
\* The quotients and products of the small numbers the model's inputs lead to
\* are tabulated, a table being evaluated once; outside the tables the
\* operators compute.

\* the decimal literals of the source, as n / d
Literals ==
    UNION {{InitialStocks[s].beta, InitialStocks[s].return, InitialStocks[s].volatility} :
              s \in DOMAIN InitialStocks} \cup {<<13, 10>>, <<8, 10>>, <<100, 1>>}

LitTable ==
    [v \in Literals |-> FDivInt(v[1], v[2])]

\* a decimal literal n / d as the float Python reads it as
Lit(v) ==
    IF v \in Literals THEN LitTable[v] ELSE FDivInt(v[1], v[2])

TableWeight ==
    IF MaxWeight > 2 * ConcMaxWeight THEN MaxWeight ELSE 2 * ConcMaxWeight

TableTotal ==
    Len(TickerOrder) * TableWeight

RatioTable ==
    [a \in 0..TableTotal |-> [b \in 1..TableTotal |-> FDivInt(a, b)]]

\* a / b for whole numbers a >= 0, b > 0
Ratio(a, b) ==
    IF a <= TableTotal /\ b <= TableTotal THEN RatioTable[a][b] ELSE FDivInt(a, b)

LitFloats ==
    {LitTable[v] : v \in Literals}

RatioFloats ==
    {RatioTable[a][b] : a \in 0..TableTotal, b \in 1..TableTotal}

MulTable ==
    [x \in LitFloats |-> [y \in RatioFloats |-> FMulExact(x, y)]]

\* x * y
FMul(x, y) ==
    IF x \in LitFloats /\ y \in RatioFloats THEN MulTable[x][y]
    ELSE IF y \in LitFloats /\ x \in RatioFloats THEN MulTable[y][x]
    ELSE FMulExact(x, y)

\* ------------------------------------------------------- fetch_live_data_batch

\* an entry of the returned dict; the numbers of a present entry are not modelled
PricePoint == [price |-> "value", daily_change |-> "value"]
NonePoint == [price |-> "None", daily_change |-> "None"]

\* lines 35-43: the loop of the try block from symbol i on; an exception leaves
\* it with the entries written so far
RECURSIVE FetchLoop(_, _, _, _)
FetchLoop(symbols, hist, i, data) ==
    IF i > Len(symbols) THEN [raised |-> FALSE, data |-> data]
    ELSE LET symbol == symbols[i]
         IN  IF hist[symbol] = "bad" THEN [raised |-> TRUE, data |-> data]
             ELSE FetchLoop(symbols, hist, i + 1,
                     [s \in DOMAIN data \cup {symbol} |->
                         IF s = symbol
                         THEN (IF hist[symbol] = "rows" THEN PricePoint ELSE NonePoint)
                         ELSE data[s]])

\* lines 34-43: the one request and the loop
FetchTry(symbols, resp) ==
    IF resp.download = "raise" THEN [raised |-> TRUE, data |-> <<>>]
    ELSE FetchLoop(symbols, resp.hist, 1, <<>>)

\* an except block that keeps the entries the loop had written
FetchExceptKeeping(symbols, data) ==
    [s \in DOMAIN data \cup Range(symbols) |->
        IF s \in DOMAIN data THEN data[s] ELSE NonePoint]

\* lines 44-46, the bare except: every requested symbol is overwritten
FetchExcept(symbols, data) ==
    [s \in DOMAIN data \cup Range(symbols) |->
        IF s \in Range(symbols) THEN NonePoint ELSE data[s]]

\* the try block without its except: an exception reaches the caller
fetch_live_data_batch_uncaught(symbols, resp) ==
    LET tried == FetchTry(symbols, resp)
    IN  [raised |-> tried.raised, data |-> tried.data, requests |-> 1]

\* whether the call raises, the dict it returns, and the requests it made
fetch_live_data_batch(symbols, resp) ==
    LET tried == FetchTry(symbols, resp)
    IN  [raised |-> FALSE,
         data |-> IF tried.raised THEN FetchExcept(symbols, tried.data) ELSE tried.data,
         requests |-> 1]

\* ------------------------------------------------------------ analyze_portfolio

\* a total of the weights of the catalog's symbols only
RECURSIVE SumKnownWeights(_)
SumKnownWeights(p) ==
    IF p = <<>> THEN 0
    ELSE (IF p[1].symbol \in DOMAIN InitialStocks THEN p[1].weight ELSE 0)
         + SumKnownWeights(Tail(p))

\* line 53
RECURSIVE SumWeights(_)
SumWeights(p) ==
    IF p = <<>> THEN 0 ELSE p[1].weight + SumWeights(Tail(p))

\* line 57
Keys(p) ==
    [i \in 1..Len(p) |-> p[i].symbol]

EmptyError == [kind |-> "error", message |-> "Error: Portfolio is empty"]
ZeroError == [kind |-> "error", message |-> "Error: Portfolio weights sum to zero"]
Raised == [kind |-> "raised"]
NoResult == [kind |-> "none"]

\* a validation without line 54's test of the sum
ValidationErrorNoZeroCheck(p) ==
    IF p = <<>> THEN EmptyError.message ELSE ""

\* lines 51-55: the message returned at once, or "" to go on
ValidationError(p) ==
    IF p = <<>> THEN EmptyError.message
    ELSE IF SumWeights(p) = 0 THEN ZeroError.message
    ELSE ""

\* d[k] = w: an assignment that forgets what the key held
DictAddOverwriting(d, k, w) ==
    IF \E i \in 1..Len(d) : d[i].key = k
    THEN [i \in 1..Len(d) |-> IF d[i].key = k THEN [key |-> k, value |-> w] ELSE d[i]]
    ELSE Append(d, [key |-> k, value |-> w])

\* d[k] = d.get(k, 0) + w on a dict held as the sequence of its items
DictAdd(d, k, w) ==
    IF \E i \in 1..Len(d) : d[i].key = k
    THEN [i \in 1..Len(d) |-> IF d[i].key = k
                               THEN [key |-> k, value |-> d[i].value + w]
                               ELSE d[i]]
    ELSE Append(d, [key |-> k, value |-> w])

\* the locals of a call that has assigned none of them
NoFrame ==
    [total_weight |-> 0, live_data |-> <<>>, requests |-> 0, response |-> "none",
     idx |-> 0, weighted_beta |-> FZero, weighted_return |-> FZero,
     weighted_volatility |-> FZero, sectors |-> <<>>, risk_levels |-> <<>>]

\* accumulators kept on the object: a call goes on from where the first
\* caller's sums stand
StartAccumulatorsKept(f) ==
    [f EXCEPT !.weighted_beta = frame["c1"].weighted_beta,
              !.weighted_return = frame["c1"].weighted_return,
              !.weighted_volatility = frame["c1"].weighted_volatility,
              !.sectors = frame["c1"].sectors,
              !.risk_levels = frame["c1"].risk_levels]

\* lines 60-64
StartAccumulators(f) ==
    [f EXCEPT !.weighted_beta = FZero, !.weighted_return = FZero,
              !.weighted_volatility = FZero, !.sectors = <<>>, !.risk_levels = <<>>]

\* a lookup that enters a symbol it does not find, as setdefault would
StocksAfterLookupEntering(cat, symbol) ==
    [s \in DOMAIN cat \cup {symbol} |->
        IF s \in DOMAIN cat THEN cat[s]
        ELSE [name |-> s, sector |-> "Unknown", beta |-> <<10, 10>>, return |-> <<10, 1>>,
              risk |-> "Medium", volatility |-> <<20, 100>>]]

\* lines 67-69: the catalog is looked up, not written
StocksAfterLookup(cat, symbol) ==
    cat

\* lines 67-75: one iteration of the loop, for the item (symbol, weight)
AccumulateItem(f, cat, symbol, weight) ==
    IF symbol \notin DOMAIN cat THEN f
    ELSE LET stock == cat[symbol]
             weight_pct == Ratio(weight, f.total_weight)
         IN  [f EXCEPT
                !.weighted_beta = FAdd(@, FMul(Lit(stock.beta), weight_pct)),
                !.weighted_return = FAdd(@, FMul(Lit(stock.return), weight_pct)),
                !.weighted_volatility = FAdd(@, FMul(Lit(stock.volatility), weight_pct)),
                !.sectors = DictAdd(@, stock.sector, weight),
                !.risk_levels = DictAdd(@, stock.risk, weight)]

\* (weight / total_weight) * 100 formatted ".1f": the percentage in tenths
PercentTenths(weight, total_weight) ==
    FRoundScaled(FMul(Ratio(weight, total_weight), Lit(<<100, 1>>)), 10)

\* lines 77-80
Breakdown(d, total_weight) ==
    [i \in 1..Len(d) |-> [key |-> d[i].key, tenths |-> PercentTenths(d[i].value, total_weight)]]

\* a classification of the beta the report prints, round(weighted_beta, 2)
RiskTierOfRounded(weighted_beta) ==
    LET shown == FDivInt(FRoundScaled(weighted_beta, 100), 100)
    IN  IF FGreater(shown, Lit(<<13, 10>>)) THEN "High"
        ELSE IF FGreater(shown, Lit(<<8, 10>>)) THEN "Medium"
        ELSE "Low"

\* line 88
RiskTier(weighted_beta) ==
    IF FGreater(weighted_beta, Lit(<<13, 10>>)) THEN "High"
    ELSE IF FGreater(weighted_beta, Lit(<<8, 10>>)) THEN "Medium"
    ELSE "Low"

\* round(x, 2), in hundredths
Round2(x) ==
    FRoundScaled(x, 100)

\* lines 82-91: the fields of the returned text
Report(f) ==
    [kind |-> "report",
     totalWeight |-> f.total_weight,
     weightedBeta |-> Round2(f.weighted_beta),
     weightedReturn |-> Round2(f.weighted_return),
     weightedVolatility |-> Round2(f.weighted_volatility),
     riskTier |-> RiskTier(f.weighted_beta),
     sectorBreakdown |-> Breakdown(f.sectors, f.total_weight),
     riskBreakdown |-> Breakdown(f.risk_levels, f.total_weight)]

\* lines 66-75: the iterations from item f.idx on
RECURSIVE RunLoop(_, _, _)
RunLoop(f, cat, p) ==
    IF f.idx > Len(p) THEN f
    ELSE RunLoop([AccumulateItem(f, cat, p[f.idx].symbol, p[f.idx].weight)
                     EXCEPT !.idx = @ + 1], cat, p)

\* lines 50-91 run from start to end by one caller on the catalog cat
analyze_portfolio(cat, p, resp) ==
    IF ValidationError(p) # "" THEN [kind |-> "error", message |-> ValidationError(p)]
    ELSE LET got == fetch_live_data_batch(Keys(p), resp)
             f == [NoFrame EXCEPT !.total_weight = SumWeights(p),
                                  !.live_data = got.data,
                                  !.requests = got.requests,
                                  !.response = resp.download,
                                  !.idx = 1]
         IN  Report(RunLoop(f, cat, p))

\* ------------------------------------------------------------- operations

NoFetch == [symbols |-> <<>>, download |-> "none", hist |-> <<>>, raised |-> FALSE,
            data |-> <<>>, requests |-> 0]

Init ==
    /\ stocks = InitialStocks
    /\ pc = [c \in Callers |-> "idle"]
    /\ portfolio = [c \in Callers |-> <<>>]
    /\ frame = [c \in Callers |-> NoFrame]
    /\ result = [c \in Callers |-> NoResult]
    /\ fetched = NoFetch

\* caller c calls analyze_portfolio(p)
Call(c, p) ==
    /\ pc[c] = "idle"
    /\ fetched = NoFetch
    /\ pc' = [pc EXCEPT ![c] = "validate"]
    /\ portfolio' = [portfolio EXCEPT ![c] = p]
    /\ frame' = [frame EXCEPT ![c] = NoFrame]
    /\ result' = [result EXCEPT ![c] = NoResult]
    /\ UNCHANGED <<stocks, fetched>>

\* lines 51-55
Validate(c) ==
    /\ pc[c] = "validate"
    /\ LET msg == ValidationError(portfolio[c])
       IN  IF msg # ""
           THEN /\ result' = [result EXCEPT ![c] = [kind |-> "error", message |-> msg]]
                /\ pc' = [pc EXCEPT ![c] = "done"]
                /\ UNCHANGED frame
           ELSE /\ frame' = [frame EXCEPT ![c].total_weight = SumWeights(portfolio[c])]
                /\ pc' = [pc EXCEPT ![c] = "fetch"]
                /\ UNCHANGED result
    /\ UNCHANGED <<stocks, portfolio, fetched>>

\* lines 57-64: the batch request, answered by resp, and the fresh accumulators
Fetch(c, resp) ==
    /\ pc[c] = "fetch"
    /\ LET got == fetch_live_data_batch(Keys(portfolio[c]), resp)
           f == [frame[c] EXCEPT !.requests = @ + got.requests,
                                 !.response = resp.download]
       IN  IF got.raised
           THEN /\ result' = [result EXCEPT ![c] = Raised]
                /\ pc' = [pc EXCEPT ![c] = "done"]
                /\ frame' = [frame EXCEPT ![c] = f]
           ELSE /\ frame' = [frame EXCEPT ![c] =
                               StartAccumulators([f EXCEPT !.live_data = got.data,
                                                           !.idx = 1])]
                /\ pc' = [pc EXCEPT ![c] = "loop"]
                /\ UNCHANGED result
    /\ UNCHANGED <<stocks, portfolio, fetched>>

\* lines 66-75: one iteration; dividing by a zero total raises
Accumulate(c) ==
    /\ pc[c] = "loop"
    /\ frame[c].idx <= Len(portfolio[c])
    /\ LET item == portfolio[c][frame[c].idx]
       IN  IF item.symbol \in DOMAIN stocks /\ frame[c].total_weight = 0
           THEN /\ result' = [result EXCEPT ![c] = Raised]
                /\ pc' = [pc EXCEPT ![c] = "done"]
                /\ UNCHANGED <<stocks, frame>>
           ELSE /\ frame' = [frame EXCEPT ![c] =
                               [AccumulateItem(@, stocks, item.symbol, item.weight)
                                   EXCEPT !.idx = @ + 1]]
                /\ stocks' = StocksAfterLookup(stocks, item.symbol)
                /\ UNCHANGED <<pc, result>>
    /\ UNCHANGED <<portfolio, fetched>>

\* a report built from the first caller's locals, whoever calls
BuildShared(c) ==
    /\ pc[c] = "loop"
    /\ frame[c].idx > Len(portfolio[c])
    /\ result' = [result EXCEPT ![c] = Report(frame["c1"])]
    /\ pc' = [pc EXCEPT ![c] = "done"]
    /\ UNCHANGED <<stocks, portfolio, frame, fetched>>

\* lines 77-91
Build(c) ==
    /\ pc[c] = "loop"
    /\ frame[c].idx > Len(portfolio[c])
    /\ result' = [result EXCEPT ![c] = Report(frame[c])]
    /\ pc' = [pc EXCEPT ![c] = "done"]
    /\ UNCHANGED <<stocks, portfolio, frame, fetched>>

\* the caller is done with what the call returned; the call's frame is gone
Return(c) ==
    /\ pc[c] = "done"
    /\ pc' = [pc EXCEPT ![c] = "idle"]
    /\ portfolio' = [portfolio EXCEPT ![c] = <<>>]
    /\ frame' = [frame EXCEPT ![c] = NoFrame]
    /\ result' = [result EXCEPT ![c] = NoResult]
    /\ UNCHANGED <<stocks, fetched>>

\* a caller calls fetch_live_data_batch(symbols) itself; the provider answers resp
FetchLive(symbols, resp) ==
    /\ \A c \in Callers : pc[c] = "idle"
    /\ fetched = NoFetch
    /\ LET got == fetch_live_data_batch(symbols, resp)
       IN  fetched' = [symbols |-> symbols, download |-> resp.download, hist |-> resp.hist,
                       raised |-> got.raised, data |-> got.data, requests |-> got.requests]
    /\ UNCHANGED <<stocks, pc, portfolio, frame, result>>

\* the caller is done with the returned dict
Forget ==
    /\ fetched # NoFetch
    /\ fetched' = NoFetch
    /\ UNCHANGED <<stocks, pc, portfolio, frame, result>>

Step(c) ==
    \/ Validate(c)
    \/ /\ pc[c] = "fetch"
       /\ \E resp \in AnalysisResponses(Keys(portfolio[c])) : Fetch(c, resp)
    \/ Accumulate(c)
    \/ Build(c)
    \/ Return(c)

\* one caller, one call after the other: analyze_portfolio on any weight map, or
\* fetch_live_data_batch on any key list with any answer of the provider
Next ==
    \/ /\ pc["c1"] = "idle"
       /\ \E p \in Portfolios : Call("c1", p)
    \/ Step("c1")
    \/ /\ pc["c1"] = "idle" /\ fetched = NoFetch
       /\ \E symbols \in KeyLists : \E resp \in Responses(symbols) : FetchLive(symbols, resp)
    \/ Forget

Spec == Init /\ [][Next]_vars

\* ---------------------------------------------------------- two callers

\* the map {X: w, ZZZZ: w} with ZZZZ left out and its weight given to X
Merged(p) ==
    IF Len(p) = 2 /\ p[2].symbol \notin DOMAIN InitialStocks
       /\ p[1].symbol \in DOMAIN InitialStocks /\ p[1].weight = p[2].weight
    THEN {<<[symbol |-> p[1].symbol, weight |-> 2 * p[1].weight]>>}
    ELSE {}

Probe == <<[symbol |-> "PFE", weight |-> 1], [symbol |-> "GOOGL", weight |-> 1]>>

\* the second caller's maps, given the first caller's: the same map, the same
\* items in the opposite order, the merged map, and an unrelated one
Related(p) ==
    {p, Reverse(p), Probe} \cup Merged(p)

\* two callers on the same analyzer, their steps interleaved at will
ConcNext ==
    \/ /\ pc["c1"] = "idle" /\ pc["c2"] = "idle"
       /\ \E p \in ConcPortfolios : Call("c1", p)
    \/ /\ pc["c1"] # "idle"
       /\ \E p \in Related(portfolio["c1"]) : Call("c2", p)
    \/ \E c \in Callers : Step(c)

SpecConc == Init /\ [][ConcNext]_vars

\* ------------------------------------------------------------------ claims

\* whether caller c's call has returned a report
Reported(c) ==
    pc[c] = "done" /\ result[c].kind = "report"

\* C1: a call on an empty map returns the empty-portfolio error and a call on
\* a non-empty map whose weights sum to zero returns the zero-weight error; such
\* a call goes no further than the validation: it makes no request to the
\* provider, assigns no accumulator and builds no report.
C1_ValidationTerminal ==
    \A c \in Callers :
        pc[c] \in {"fetch", "loop", "done"} =>
            /\ portfolio[c] = <<>> =>
                   pc[c] = "done" /\ result[c] = EmptyError /\ frame[c] = NoFrame
            /\ (portfolio[c] # <<>> /\ SumWeights(portfolio[c]) = 0) =>
                   pc[c] = "done" /\ result[c] = ZeroError /\ frame[c] = NoFrame

C1_Witness ==
    /\ pc["c1"] = "done"
    /\ Len(portfolio["c1"]) >= 2
    /\ result["c1"] = ZeroError
    /\ frame["c1"].requests = 0

\* C10: fetch_live_data_batch does not raise, makes one request, and returns
\* a dict whose keys are the requested symbols; if the request or the handling
\* of any symbol raises, every requested symbol maps to None values, those
\* handled before the exception too; otherwise a symbol with an empty history
\* maps to None values and the others to their data.
C10_FetchLive ==
    fetched # NoFetch =>
        LET syms == Range(fetched.symbols)
            failed == fetched.download = "raise" \/ \E s \in syms : fetched.hist[s] = "bad"
        IN  /\ ~fetched.raised
            /\ fetched.requests = 1
            /\ DOMAIN fetched.data = syms
            /\ \A s \in syms :
                   fetched.data[s] = IF failed \/ fetched.hist[s] = "empty"
                                     THEN NonePoint ELSE PricePoint

C10_Witness ==
    /\ fetched.download = "ok"
    /\ Len(fetched.symbols) = 3
    /\ fetched.hist[fetched.symbols[1]] = "rows"
    /\ fetched.hist[fetched.symbols[2]] = "empty"
    /\ fetched.hist[fetched.symbols[3]] = "bad"
    /\ fetched.data[fetched.symbols[1]] = NonePoint

\* a catalog of the one entry SYN, of beta b
SyntheticStocks(b) ==
    [s \in {"SYN"} |->
        [name |-> "Synthetic", sector |-> "Index", beta |-> b, return |-> <<10, 1>>,
         risk |-> "Low", volatility |-> <<15, 100>>]]

\* the tiers of the single-holding portfolios of SYN, by SYN's beta
BoundaryTiers ==
    [b \in {<<13, 10>>, <<131, 100>>, <<8, 10>>, <<81, 100>>} |->
        {analyze_portfolio(SyntheticStocks(b), <<[symbol |-> "SYN", weight |-> w]>>,
                           [download |-> "raise", hist |-> <<>>]).riskTier :
            w \in 1..MaxWeight}]

\* the tier of a report whose map holds the one symbol `symbol`
SingleTier(c, symbol, tier) ==
    (Len(portfolio[c]) = 1 /\ portfolio[c][1].symbol = symbol) => result[c].riskTier = tier

\* C5: the tier of a report is decided by the unrounded weighted_beta alone:
\* High iff it is > 1.3, Medium iff it is > 0.8 and not > 1.3, Low iff it is not
\* > 0.8; a single holding of beta 1.3 is Medium, of 1.31 High, of 0.8 Low, of
\* 0.81 Medium.
C5_RiskTierByUnroundedBeta ==
    /\ \A c \in Callers :
           Reported(c) =>
               LET high == FGreater(frame[c].weighted_beta, Lit(<<13, 10>>))
                   mid == FGreater(frame[c].weighted_beta, Lit(<<8, 10>>))
               IN  /\ result[c].riskTier = "High" <=> high
                   /\ result[c].riskTier = "Medium" <=> (~high /\ mid)
                   /\ result[c].riskTier = "Low" <=> ~mid
                   /\ SingleTier(c, "GOOGL", "Medium")
                   /\ SingleTier(c, "PFE", "Low")
                   /\ SingleTier(c, "NVDA", "High")
    /\ BoundaryTiers[<<13, 10>>] = {"Medium"}
    /\ BoundaryTiers[<<131, 100>>] = {"High"}
    /\ BoundaryTiers[<<8, 10>>] = {"Low"}
    /\ BoundaryTiers[<<81, 100>>] = {"Medium"}

\* a report that prints the beta 1.3 and the tier High
C5_Witness ==
    /\ Reported("c1")
    /\ result["c1"].weightedBeta = 130
    /\ result["c1"].riskTier = "High"

\* the sum of a dict's values
RECURSIVE SumValues(_)
SumValues(d) ==
    IF d = <<>> THEN 0 ELSE d[1].value + SumValues(Tail(d))

\* the sum of a breakdown's percentages, in tenths
RECURSIVE SumTenths(_)
SumTenths(b) ==
    IF b = <<>> THEN 0 ELSE b[1].tenths + SumTenths(Tail(b))

\* whether caller c's call has returned and its map passed line 51 and line 54
ValidDone(c) ==
    pc[c] = "done" /\ portfolio[c] # <<>> /\ SumWeights(portfolio[c]) # 0

\* whether each line of the breakdown b is the share of total_weight that the
\* dict d holds for the key, rounded to one decimal
RoundedShares(b, d, total_weight) ==
    /\ Len(b) = Len(d)
    /\ \A i \in 1..Len(d) :
           LET err == total_weight * b[i].tenths - 1000 * d[i].value
           IN  /\ b[i].key = d[i].key
               /\ 2 * err <= total_weight
               /\ 2 * (0 - err) <= total_weight

\* C2 as stated: a call on a non-empty map of non-zero sum returns a report, the
\* percentages of each of its breakdowns sum to at most 100%, and to 100% iff
\* every symbol of the map is in the catalog.
C2_SumsAtMostHundred ==
    \A c \in Callers :
        ValidDone(c) =>
            /\ result[c].kind = "report"
            /\ \A b \in {result[c].sectorBreakdown, result[c].riskBreakdown} :
                   /\ SumTenths(b) <= 1000
                   /\ SumTenths(b) = 1000 <=>
                          \A i \in 1..Len(portfolio[c]) : portfolio[c][i].symbol \in DOMAIN stocks

\* C2, amended: a call on a non-empty map of whole-number weights of non-zero
\* sum returns a report; the weights each breakdown is built from sum to at most
\* total_weight, and to total_weight iff every symbol of non-zero weight is in
\* the catalog; and each printed percentage is its category's share of
\* total_weight rounded to one decimal, so the printed percentages need not sum
\* to the share of the known symbols (three known symbols can print 100.1%).
C2_BreakdownShares ==
    \A c \in Callers :
        ValidDone(c) =>
            /\ result[c].kind = "report"
            /\ \A d \in {frame[c].sectors, frame[c].risk_levels} :
                   /\ SumValues(d) <= frame[c].total_weight
                   /\ SumValues(d) = frame[c].total_weight <=>
                          \A i \in 1..Len(portfolio[c]) :
                              \/ portfolio[c][i].weight = 0
                              \/ portfolio[c][i].symbol \in DOMAIN stocks
            /\ RoundedShares(result[c].sectorBreakdown, frame[c].sectors, frame[c].total_weight)
            /\ RoundedShares(result[c].riskBreakdown, frame[c].risk_levels, frame[c].total_weight)

\* every symbol is in the catalog and the risk percentages sum to 100.1%
C2_Witness ==
    /\ Reported("c1")
    /\ \A i \in 1..Len(portfolio["c1"]) : portfolio["c1"][i].symbol \in DOMAIN stocks
    /\ SumTenths(result["c1"].riskBreakdown) = 1001
    /\ SumTenths(result["c1"].sectorBreakdown) = 1000

\* C8: no call of analyze_portfolio or fetch_live_data_batch, whatever it
\* returns, changes self.stocks, which stays as __init__ built it, and a call
\* does not change the map its caller passed.
C8_CatalogAndMapUnchanged ==
    /\ [](stocks = InitialStocks)
    /\ [][\A c \in Callers :
              (pc[c] # "idle" /\ pc'[c] # "idle") => portfolio'[c] = portfolio[c]]_vars

\* a call with a symbol the catalog lacks has returned after an outage
C8_Witness ==
    /\ Reported("c1")
    /\ frame["c1"].response = "raise"
    /\ \E i \in 1..Len(portfolio["c1"]) : portfolio["c1"][i].symbol \notin DOMAIN InitialStocks
    /\ \E i \in 1..Len(portfolio["c1"]) : portfolio["c1"][i].symbol \in DOMAIN InitialStocks
    /\ stocks = InitialStocks

\* the first caller's map is {X: w, U: w}, X in the catalog and U not, the
\* second's is {X: 2w}, and both calls have returned
LenientPair ==
    /\ Reported("c1")
    /\ Reported("c2")
    /\ portfolio["c2"] \in Merged(portfolio["c1"])

\* C3 as stated: {X: w, U: w} yields the same weighted beta, return and
\* volatility as X alone with the whole weight.
C3_SameMetricsAsAlone ==
    LenientPair =>
        /\ result["c1"].weightedBeta = result["c2"].weightedBeta
        /\ result["c1"].weightedReturn = result["c2"].weightedReturn
        /\ result["c1"].weightedVolatility = result["c2"].weightedVolatility

\* C3, amended: the weight of a symbol the catalog lacks stays in
\* total_weight, so {X: w, U: w} yields half the weighted beta, return and
\* volatility of {X: 2w}, whose metrics are X's catalog values.
C3_UnknownWeightDilutes ==
    LenientPair =>
        LET stock == stocks[portfolio["c1"][1].symbol]
            half == frame["c1"]
            whole == frame["c2"]
        IN  /\ whole.weighted_beta = Lit(stock.beta)
            /\ whole.weighted_return = Lit(stock.return)
            /\ whole.weighted_volatility = Lit(stock.volatility)
            /\ FAdd(half.weighted_beta, half.weighted_beta) = whole.weighted_beta
            /\ FAdd(half.weighted_return, half.weighted_return) = whole.weighted_return
            /\ FAdd(half.weighted_volatility, half.weighted_volatility) = whole.weighted_volatility
            /\ half.total_weight = whole.total_weight

\* {GOOGL: w, ZZZZ: w} reports the beta 0.65 and {GOOGL: 2w} the beta 1.3
C3_Witness ==
    /\ LenientPair
    /\ portfolio["c1"][1].symbol = "GOOGL"
    /\ result["c1"].weightedBeta = 65
    /\ result["c2"].weightedBeta = 130

\* C4: when the provider raises for the request of a call on a non-empty map
\* of non-zero sum, the call still returns a report, and the report is the one
\* a call on the same map returns when the provider answers.
C4_ProviderFailure ==
    \A c \in Callers :
        (ValidDone(c) /\ frame[c].response = "raise") =>
            /\ result[c].kind = "report"
            /\ \A d \in Callers :
                   (ValidDone(d) /\ portfolio[d] = portfolio[c] /\ frame[d].response = "ok")
                       => result[d] = result[c]

C4_Witness ==
    /\ Reported("c1")
    /\ Reported("c2")
    /\ Len(portfolio["c1"]) >= 2
    /\ portfolio["c2"] = portfolio["c1"]
    /\ frame["c1"].response = "raise"
    /\ frame["c2"].response = "ok"
    /\ \A s \in DOMAIN frame["c1"].live_data : frame["c1"].live_data[s] = NonePoint
    /\ \E s \in DOMAIN frame["c2"].live_data : frame["c2"].live_data[s] = PricePoint

\* C6 as stated: the weighted beta, return and volatility are the sums over
\* the catalog's symbols of value * weight / total_weight in whatever order the
\* symbols are visited, so two maps of the same items in opposite orders yield
\* the same three values; and a single holding of X yields X's catalog values.
C6_WeightedSums ==
    /\ (Reported("c1") /\ Reported("c2") /\ portfolio["c2"] = Reverse(portfolio["c1"])) =>
           /\ frame["c1"].weighted_beta = frame["c2"].weighted_beta
           /\ frame["c1"].weighted_return = frame["c2"].weighted_return
           /\ frame["c1"].weighted_volatility = frame["c2"].weighted_volatility
    /\ \A c \in Callers :
           (Reported(c) /\ Len(portfolio[c]) = 1 /\ portfolio[c][1].symbol \in DOMAIN stocks) =>
               /\ frame[c].weighted_beta = Lit(stocks[portfolio[c][1].symbol].beta)
               /\ frame[c].weighted_return = Lit(stocks[portfolio[c][1].symbol].return)
               /\ frame[c].weighted_volatility = Lit(stocks[portfolio[c][1].symbol].volatility)

\* the locals caller c's call would hold at its item frame[c].idx had it run
\* alone on its map, with the live data it was given
Alone(c) ==
    RunLoop([NoFrame EXCEPT !.total_weight = SumWeights(portfolio[c]),
                            !.live_data = frame[c].live_data,
                            !.requests = 1,
                            !.response = frame[c].response,
                            !.idx = 1],
            InitialStocks, SubSeq(portfolio[c], 1, frame[c].idx - 1))

\* C7: with two callers on the same analyzer, their steps interleaved at will,
\* each call's accumulators are at every step the ones it would have had alone
\* on its own map, and it returns what it would have returned alone.
C7_ConcurrentIndependence ==
    \A c \in Callers :
        /\ pc[c] = "loop" => frame[c] = Alone(c)
        /\ Reported(c) => frame[c] = Alone(c) /\ result[c] = Report(Alone(c))
        /\ pc[c] = "done" =>
               \E resp \in AnalysisResponses(Keys(portfolio[c])) :
                   result[c] = analyze_portfolio(InitialStocks, portfolio[c], resp)

\* both calls are inside their loops, on different maps
C7_Witness ==
    /\ pc["c1"] = "loop"
    /\ pc["c2"] = "loop"
    /\ frame["c1"].idx = 2
    /\ frame["c2"].idx = 2
    /\ Len(portfolio["c1"]) = 3
    /\ frame["c1"].weighted_beta # frame["c2"].weighted_beta
    /\ frame["c1"].sectors # frame["c2"].sectors

\* C9: two calls on the same analyzer with the same map and the same answer
\* of the provider return the same thing, error or report, whatever the first
\* of them did before the second.
C9_Idempotence ==
    (/\ pc["c1"] = "done"
     /\ pc["c2"] = "done"
     /\ portfolio["c1"] = portfolio["c2"]
     /\ frame["c1"].response = frame["c2"].response
     /\ frame["c1"].live_data = frame["c2"].live_data)
        => result["c1"] = result["c2"]

C9_Witness ==
    /\ Reported("c1")
    /\ Reported("c2")
    /\ Len(portfolio["c1"]) = 3
    /\ portfolio["c1"] = portfolio["c2"]
    /\ frame["c1"].response = "ok"
    /\ frame["c1"].live_data = frame["c2"].live_data
    /\ result["c1"] = result["c2"]
====
